---- MODULE Spec2Model ----
(***************************************************************************)
(* A model of the lecture-feedback streaming service:                      *)
(*   - AudioProcessor.stream_audio_chunks  (stream/services/               *)
(*     audio_processor.py), the overlapping re-segmentation of the PCM     *)
(*     byte stream;                                                        *)
(*   - ContextCache (stream/services/context_cache.py), the rolling        *)
(*     transcript window and its feedback decision;                        *)
(*   - StreamConsumer (stream/consumers.py), the per-connection session    *)
(*     with its ingestion loop tasks and feedback tasks.                   *)
(* Time is counted in whole seconds.  A text is the sequence of its        *)
(* whitespace-separated words.                                             *)
(***************************************************************************)
EXTENDS Integers, Sequences, FiniteSets, TLC

\* ------------------------------------------------------------------ bounds

\* chunk_duration ranges over n/64000 s for n in -2..MaxDurNum
MaxDurNum == 8
\* longest input byte stream
MaxInput == 6
\* cap on the number of emitted chunks (a non-terminating emit loop is cut here)
MaxChunks == 8

\* Spec: the clock stops here (seconds), the accepted start messages per
\* connection, the transcripts a session's window takes
MaxTime == 10
MaxStarts == 2
MaxWindow == 2
\* SessionSpec (one accepted start): the clock stops here, the transcripts the
\* window takes
LongTime == 20
LongWindow == 3
\* RestartSpec: the accepted start messages per connection
MaxRestarts == 3

\* ------------------------------------------------------- program constants

\* AudioProcessor.__init__: self.sample_rate, self.chunk_size
sample_rate == 16000
chunk_size == 4096

VARIABLES
    \* --- AudioProcessor.stream_audio_chunks
    chunk_duration,   \* <<num, den>>: the argument, num/den seconds
    overlap,          \* <<num, den>>: the argument, num/den
    stream,           \* the whole byte stream stream_audio() will deliver
    pos,              \* bytes of stream delivered so far
    buffer,           \* the local buffer
    chunks,           \* chunks yielded so far: [data, final]
    seg_pc,           \* "read" | "emit" | "done"
    \* --- StreamConsumer
    now,                \* time.time()
    is_streaming,
    start_time,
    last_feedback_time,
    cache,              \* self.context_cache
    audio_processor,    \* self.audio_processor: index into is_running, 0 for None
    is_running,         \* AudioProcessor.is_running of every processor created
    loops,              \* the process_audio_stream tasks alive: [pc, ap, buf, final]
    tasks,              \* the generate_feedback tasks alive: [pc, prompt]
    llm_ready,          \* LLMService has a model (GEMINI_AVAILABLE and an API key)
    sent,               \* the events the last step sent to the client
    orphans,            \* processors whose generator a loop dropped while they
                        \* ran: the event loop closes it (asyncgen finalizer)
    \* --- ContextCache driven on its own
    ret,                \* what the last call returned
    history             \* the arguments of the calls under study (add_transcript,
                        \* or add_feedback) since the last reset

seg_vars == <<chunk_duration, overlap, stream, pos, buffer, chunks, seg_pc>>

session_vars == <<now, is_streaming, start_time, last_feedback_time, cache,
                  audio_processor, is_running, loops, tasks, llm_ready, sent,
                  orphans>>

call_vars == <<ret, history>>

vars == <<chunk_duration, overlap, stream, pos, buffer, chunks, seg_pc,
          now, is_streaming, start_time, last_feedback_time, cache,
          audio_processor, is_running, loops, tasks, llm_ready, sent,
          orphans, ret, history>>

\* ------------------------------------------------------------ Python helpers

Min(a, b) == IF a <= b THEN a ELSE b
Max(a, b) == IF a >= b THEN a ELSE b

\* int(num/den) for den > 0: truncation toward zero
PyInt(num, den) == IF num >= 0 THEN num \div den ELSE -((-num) \div den)

\* s[:n]
PySliceTo(s, n) ==
    IF n >= 0 THEN SubSeq(s, 1, Min(n, Len(s)))
    ELSE SubSeq(s, 1, Max(Len(s) + n, 0))

\* s[n:]
PySliceFrom(s, n) ==
    IF n >= 0 THEN SubSeq(s, Min(n, Len(s)) + 1, Len(s))
    ELSE SubSeq(s, Max(Len(s) + n, 0) + 1, Len(s))

\* ------------------------------------------- AudioProcessor.stream_audio_chunks

bytes_per_second == sample_rate * 2

\* chunk_bytes = int(bytes_per_second * chunk_duration)
ChunkBytes(dur) == PyInt(bytes_per_second * dur[1], dur[2])

\* overlap_bytes = int(chunk_bytes * overlap)
OverlapBytes(dur, ov) == PyInt(ChunkBytes(dur) * ov[1], ov[2])

\* step_bytes = chunk_bytes - overlap_bytes
StepBytes(dur, ov) == ChunkBytes(dur) - OverlapBytes(dur, ov)

chunk_bytes == ChunkBytes(chunk_duration)
overlap_bytes == OverlapBytes(chunk_duration, overlap)
step_bytes == StepBytes(chunk_duration, overlap)

\* the arguments tried: chunk_duration in 1/64000 s, overlap in tenths
Durations == {<<n, 64000>> : n \in -2..MaxDurNum}
Overlaps == {<<k, 10>> : k \in {-1, 0, 2, 3, 4, 5, 10, 12}}

\* the byte streams tried: all bytes distinct, or two alternating values
Streams ==
    {[i \in 1..n |-> i] : n \in 0..MaxInput} \cup
    {[i \in 1..n |-> i % 2] : n \in 2..MaxInput}

\* the documented argument ranges (docstring, lines 205-206)
ValidConfig == chunk_duration[1] > 0
                /\ overlap[1] >= 0 /\ 2 * overlap[1] < overlap[2]

\* the call the consumer makes (consumers.py line 85): 2.0 s chunks, overlap
\* 0.2, on streams of whole PCM seconds around chunk_bytes + k * step_bytes
ConsumerStreams ==
    {[i \in 1..n |-> i % 256] : n \in {64000, 115200, 115201, 166400}}

SegInit ==
    /\ \/ /\ chunk_duration \in Durations
          /\ overlap \in Overlaps
          /\ stream \in Streams
       \/ /\ chunk_duration = <<2, 1>>
          /\ overlap \in {<<2, 10>>, <<0, 10>>}
          /\ stream \in ConsumerStreams
    /\ pos = 0
    /\ buffer = <<>>
    /\ chunks = <<>>
    /\ seg_pc = "read"

\* the guard of `while len(buffer) >= chunk_bytes`
\* a guard that emits as soon as the buffer holds anything
EmitGuardNonEmpty(buf) == Len(buf) >= 1

EmitGuard(buf) == Len(buf) >= chunk_bytes

\* an emission that keeps nothing of the chunk it emitted
AdvanceWholeChunk(buf) == PySliceFrom(buf, chunk_bytes)

\* an emission that keeps one byte less than the overlap
AdvanceOneMore(buf) == PySliceFrom(buf, step_bytes + 1)

\* the buffer after one emission: buffer = buffer[step_bytes:]
Advance(buf) == PySliceFrom(buf, step_bytes)

\* the sizes in which stream_audio() may deliver the next bytes: _stream_ffmpeg
\* reads chunk_size bytes at a time (the rest at the end); the short streams
\* are delivered in appends of every size
ReadSizes ==
    IF Len(stream) <= MaxInput THEN 1..(Len(stream) - pos)
    ELSE {Min(chunk_size, Len(stream) - pos)} \ {0}

\* async for data in self.stream_audio(): buffer += data
SegAppend(d) ==
    /\ seg_pc = "read"
    /\ d \in ReadSizes
    /\ buffer' = buffer \o SubSeq(stream, pos + 1, pos + d)
    /\ pos' = pos + d
    /\ seg_pc' = IF EmitGuard(buffer') THEN "emit" ELSE "read"
    /\ UNCHANGED <<chunk_duration, overlap, stream, chunks>>
    /\ UNCHANGED session_vars
    /\ UNCHANGED call_vars

\* one turn of the while loop: yield buffer[:chunk_bytes]; buffer = buffer[step_bytes:]
SegEmit ==
    /\ seg_pc = "emit"
    /\ Len(chunks) < MaxChunks
    /\ chunks' = Append(chunks, [data |-> PySliceTo(buffer, chunk_bytes), final |-> FALSE])
    /\ buffer' = Advance(buffer)
    /\ seg_pc' = IF EmitGuard(buffer') THEN "emit" ELSE "read"
    /\ UNCHANGED <<chunk_duration, overlap, stream, pos>>
    /\ UNCHANGED session_vars
    /\ UNCHANGED call_vars

\* an end of the source that drops what the buffer still holds
SegEndDropsRemainder ==
    /\ seg_pc = "read"
    /\ pos = Len(stream)
    /\ seg_pc' = "done"
    /\ UNCHANGED <<chunk_duration, overlap, stream, pos, buffer, chunks>>
    /\ UNCHANGED session_vars
    /\ UNCHANGED call_vars

\* the source ends: if buffer: yield buffer
SegEnd ==
    /\ seg_pc = "read"
    /\ pos = Len(stream)
    /\ chunks' = IF buffer # <<>>
                 THEN Append(chunks, [data |-> buffer, final |-> TRUE])
                 ELSE chunks
    /\ seg_pc' = "done"
    /\ UNCHANGED <<chunk_duration, overlap, stream, pos, buffer>>
    /\ UNCHANGED session_vars
    /\ UNCHANGED call_vars

SegNext ==
    \/ \E d \in ReadSizes : SegAppend(d)
    \/ SegEmit
    \/ SegEnd

\* ------------------------------------------------------------- ContextCache
\* A text is the sequence of its whitespace-separated words (text.split()).
\* Words are written in ASCII; a Hangul word is written romanised and listed
\* in Hangul with its length in syllables.

\* ContextCache(max_history=50), consumers.py line 30
max_history == 50

\* romanised Hangul words |-> len(word)
Hangul ==
    [geurigo |-> 3, geureona |-> 3, hajiman |-> 3, geuraeseo |-> 3,
     ttaraseo |-> 3, igeot |-> 2, jeogeot |-> 2, yeogi |-> 2, geogi |-> 2,
     ireon |-> 2, jeoreon |-> 2, eotteon |-> 2, mueot |-> 2, nugu |-> 2,
     eonje |-> 2, eodi |-> 2, eotteoke |-> 3, wae |-> 1, geunyang |-> 2,
     jeongmal |-> 2, maeu |-> 2, aju |-> 2, neomu |-> 2, itseumnida |-> 4,
     eopseumnida |-> 4, hamnida |-> 3, doemnida |-> 3, imnida |-> 3,
     geosimnida |-> 4,
     gangui |-> 2, hamsu |-> 2, su |-> 1]

\* self.stopwords
stopwords ==
    {"geurigo", "geureona", "hajiman", "geuraeseo", "ttaraseo", "igeot",
     "jeogeot", "yeogi", "geogi", "ireon", "jeoreon", "eotteon", "mueot",
     "nugu", "eonje", "eodi", "eotteoke", "wae", "geunyang", "jeongmal",
     "maeu", "aju", "neomu", "itseumnida", "eopseumnida", "hamnida",
     "doemnida", "imnida", "geosimnida"}

\* re.findall(r'[Hangul a-zA-Z0-9]+', word) of the words that hold other characters
Punctuated ==
    ("fetch()" :> <<"fetch">>) @@ ("x=10" :> <<"x", "10">>) @@
    ("AJAX," :> <<"AJAX">>) @@ ("..." :> <<>>)

\* str.lower() of the ASCII words that hold capitals
Capitals == [AJAX |-> "ajax", Python |-> "python", API |-> "api"]

\* re.findall over one whitespace-free word
Tokens(word) == IF word \in DOMAIN Punctuated THEN Punctuated[word] ELSE <<word>>

\* re.findall over the text
RECURSIVE FindAll(_)
FindAll(text) ==
    IF text = <<>> THEN <<>> ELSE Tokens(Head(text)) \o FindAll(Tail(text))

CharLen(word) == IF word \in DOMAIN Hangul THEN Hangul[word] ELSE Len(word)
IsAscii(word) == word \notin DOMAIN Hangul
Lower(word) == IF word \in DOMAIN Capitals THEN Capitals[word] ELSE word

\* len(word) >= 2 and word not in self.stopwords
IsKeyword(word) == CharLen(word) >= 2 /\ word \notin stopwords

\* ContextCache._extract_keywords
ExtractKeywords(text) ==
    LET kept == SelectSeq(FindAll(text), IsKeyword)
    IN  [i \in 1..Len(kept) |-> IF IsAscii(kept[i]) THEN Lower(kept[i]) ELSE kept[i]]

SeqToSet(q) == {q[i] : i \in 1..Len(q)}

\* ' '.join(texts).split()
RECURSIVE JoinTexts(_)
JoinTexts(texts) ==
    IF texts = <<>> THEN <<>> ELSE Head(texts) \o JoinTexts(Tail(texts))

\* seq[-n:] for n >= 1
LastN(q, n) == SubSeq(q, Max(Len(q) - n, 0) + 1, Len(q))

\* ContextCache.__init__(max_history) at time t
NewCacheOf(capacity, t) ==
    [transcripts |-> <<>>,          \* deque of the texts
     maxlen |-> capacity,           \* transcripts.maxlen
     topics |-> <<>>,               \* dict in insertion order: <<[kw, n], ...>>
     previous_feedbacks |-> <<>>,
     last_topic_keywords |-> {},
     total_words |-> 0,
     session_start |-> t]

\* ContextCache() as StreamConsumer creates it: max_history takes its default
NewCache(t) == NewCacheOf(max_history, t)

ResetKeepsFeedbacks(c, t) ==
    [NewCacheOf(c.maxlen, t) EXCEPT !.previous_feedbacks = c.previous_feedbacks]

\* ContextCache.reset: deque.clear() keeps maxlen
Reset(c, t) == NewCacheOf(c.maxlen, t)

CountKeywordOnce(topics, kw) ==
    IF \E i \in 1..Len(topics) : topics[i].kw = kw
    THEN topics
    ELSE Append(topics, [kw |-> kw, n |-> 1])

\* self.topics[kw] = self.topics.get(kw, 0) + 1
CountKeyword(topics, kw) ==
    IF \E i \in 1..Len(topics) : topics[i].kw = kw
    THEN [i \in 1..Len(topics) |->
             IF topics[i].kw = kw THEN [topics[i] EXCEPT !.n = @ + 1] ELSE topics[i]]
    ELSE Append(topics, [kw |-> kw, n |-> 1])

\* for kw in keywords: ...
RECURSIVE CountKeywords(_, _)
CountKeywords(topics, kws) ==
    IF kws = <<>> THEN topics
    ELSE CountKeywords(CountKeyword(topics, Head(kws)), Tail(kws))

DetectTopicChangeFromSixTenths(c, current_keywords) ==
    /\ c.last_topic_keywords # {}
    /\ Cardinality(current_keywords) # 0
    /\ 10 * Cardinality(current_keywords \ c.last_topic_keywords)
           >= 6 * Cardinality(current_keywords)

\* ContextCache._detect_topic_change
DetectTopicChange(c, current_keywords) ==
    IF c.last_topic_keywords = {} THEN FALSE
    ELSE IF Cardinality(current_keywords) = 0 THEN FALSE
    ELSE \* new_ratio > 0.6
         10 * Cardinality(current_keywords \ c.last_topic_keywords)
             > 6 * Cardinality(current_keywords)

DequeAppendUnbounded(q, e, maxlen) == Append(q, e)

DequeAppendDropsNewest(q, e, maxlen) ==
    IF Len(q) >= maxlen THEN q ELSE Append(q, e)

\* deque.append with maxlen
DequeAppend(q, e, maxlen) ==
    IF Len(q) >= maxlen THEN Append(Tail(q), e) ELSE Append(q, e)

AddTranscriptMergesSnapshot(c, text) ==
    LET keywords == ExtractKeywords(text)
    IN  [c EXCEPT
            !.transcripts = DequeAppend(@, text, c.maxlen),
            !.total_words = @ + Len(text),
            !.topics = CountKeywords(@, keywords),
            !.last_topic_keywords = @ \cup SeqToSet(keywords)]

\* ContextCache.add_transcript: the cache afterwards (of an entry only the
\* text is kept: nothing reads its timestamp and added_at)
AddTranscript(c, text) ==
    LET keywords == ExtractKeywords(text)
    IN  [c EXCEPT
            !.transcripts = DequeAppend(@, text, c.maxlen),
            !.total_words = @ + Len(text),
            !.topics = CountKeywords(@, keywords),
            !.last_topic_keywords = SeqToSet(keywords)]

\* ContextCache.add_transcript: the dict it returns
Analysis(c, text) ==
    LET keywords == ExtractKeywords(text)
    IN  [keywords |-> keywords,
         topic_changed |-> DetectTopicChange(c, SeqToSet(keywords)),
         total_words |-> c.total_words + Len(text)]

GetContextSummaryWhole(c, num_recent) == JoinTexts(c.transcripts)

\* ContextCache.get_context_summary
GetContextSummary(c, num_recent) ==
    JoinTexts(LastN(c.transcripts, num_recent))

\* the first index holding the largest count (sorted() is stable)
FirstMax(topics) ==
    CHOOSE i \in 1..Len(topics) :
        /\ \A j \in 1..Len(topics) : topics[j].n <= topics[i].n
        /\ \A j \in 1..(i - 1) : topics[j].n < topics[i].n

RemoveAt(q, i) == SubSeq(q, 1, i - 1) \o SubSeq(q, i + 1, Len(q))

\* ContextCache.get_top_topics
RECURSIVE GetTopTopics(_, _)
GetTopTopics(topics, n) ==
    IF n = 0 \/ topics = <<>> THEN <<>>
    ELSE LET i == FirstMax(topics)
         IN  <<topics[i]>> \o GetTopTopics(RemoveAt(topics, i), n - 1)

ShouldGenerateFeedbackNewContentFirst(c, min_words) ==
    LET recent == LastN(c.transcripts, 3)
        recent_text == JoinTexts(recent)
        word_count == Len(recent_text)
        current_keywords == SeqToSet(ExtractKeywords(recent_text))
        topic_changed == DetectTopicChange(c, current_keywords)
        top_topics == {t.kw : t \in SeqToSet(GetTopTopics(c.topics, 3))}
        new_keywords == current_keywords \ c.last_topic_keywords
        has_new_content == Cardinality(new_keywords) >= 2
    IN  IF recent = <<>> THEN [should |-> FALSE, reason |-> "no_content"]
        ELSE IF word_count < min_words
             THEN [should |-> FALSE, reason |-> "insufficient_words"]
        ELSE [should |-> TRUE,
              reason |-> IF has_new_content THEN "new_content"
                         ELSE IF topic_changed THEN "topic_change" ELSE "regular",
              topic_changed |-> topic_changed,
              has_key_topic |-> current_keywords \cap top_topics # {},
              has_new_content |-> has_new_content,
              word_count |-> word_count]

ShouldGenerateFeedbackSignalsFirst(c, min_words) ==
    LET recent_text == JoinTexts(LastN(c.transcripts, 3))
        current_keywords == SeqToSet(ExtractKeywords(recent_text))
    IN  IF c.transcripts = <<>> THEN [should |-> FALSE, reason |-> "no_content"]
        ELSE IF DetectTopicChange(c, current_keywords)
             THEN [should |-> TRUE, reason |-> "topic_change"]
        ELSE [should |-> FALSE, reason |-> "insufficient_words"]

\* ContextCache.should_generate_feedback
ShouldGenerateFeedback(c, min_words) ==
    LET recent == LastN(c.transcripts, 3)
        recent_text == JoinTexts(recent)
        word_count == Len(recent_text)
        current_keywords == SeqToSet(ExtractKeywords(recent_text))
        topic_changed == DetectTopicChange(c, current_keywords)
        top_topics == {t.kw : t \in SeqToSet(GetTopTopics(c.topics, 3))}
        new_keywords == current_keywords \ c.last_topic_keywords
        has_new_content == Cardinality(new_keywords) >= 2
    IN  IF recent = <<>> THEN [should |-> FALSE, reason |-> "no_content"]
        ELSE IF word_count < min_words
             THEN [should |-> FALSE, reason |-> "insufficient_words"]
        ELSE [should |-> TRUE,
              reason |-> IF topic_changed THEN "topic_change"
                         ELSE IF has_new_content THEN "new_content" ELSE "regular",
              topic_changed |-> topic_changed,
              has_key_topic |-> (current_keywords \cap top_topics) # {},
              has_new_content |-> has_new_content,
              word_count |-> word_count]

AddFeedbackKeepsOldest(c, feedback) ==
    [c EXCEPT !.previous_feedbacks = IF Len(@) >= 10 THEN @ ELSE Append(@, feedback)]

AddFeedbackClearsTopics(c, feedback) ==
    [c EXCEPT !.previous_feedbacks = Append(@, feedback), !.topics = <<>>]

\* ContextCache.add_feedback
AddFeedback(c, feedback) ==
    LET all == Append(c.previous_feedbacks, feedback)
    IN  [c EXCEPT !.previous_feedbacks = IF Len(all) > 10 THEN LastN(all, 10) ELSE all]

\* ContextCache.get_feedback_context at time t (recent_keywords, which no
\* caller reads, is left out)
GetFeedbackContext(c, t) ==
    [recent_text |-> GetContextSummary(c, 15),
     top_topics |-> GetTopTopics(c.topics, 5),
     total_words |-> c.total_words,
     duration |-> t - c.session_start,
     previous_feedback_count |-> Len(c.previous_feedbacks),
     last_feedback |-> IF c.previous_feedbacks # <<>>
                       THEN c.previous_feedbacks[Len(c.previous_feedbacks)]
                       ELSE <<>>]

\* ----------------------------------------------------------- LLMService

\* what the model answers: text, nothing, or an error inside the try
Outcomes == {"text", "empty", "error"}

\* a feedback is <<kind, n>>; None is <<>>
None == <<>>

\* LLMService._fallback_response
FallbackResponse(context) ==
    IF Len(context) < 10 THEN <<"fallback_wait", 0>>
    ELSE <<"fallback_count", Len(context)>>

\* LLMService.generate_feedback up to asyncio.to_thread: what of the context
\* goes into the prompt
Prompt(context, cache_context) ==
    [context |-> context,
     topics |-> [i \in 1..Len(cache_context.top_topics) |-> cache_context.top_topics[i].kw],
     last_feedback |-> cache_context.last_feedback]

\* LLMService.generate_feedback once the model has answered with `outcome`
GenerateFeedback(outcome, context) ==
    CASE outcome = "text" -> <<"llm", 1>>
      [] outcome = "empty" -> None
      [] outcome = "error" -> FallbackResponse(context)

\* ------------------------------------------------------------ StreamConsumer
\* One action is what a coroutine does between two suspensions.  A loop at pc
\* "chunk" or "exit" has not suspended: nothing else runs until it has moved on.
\*   loop pc: "created"       the task exists and has not run yet
\*            "fetch"         suspended in the generator, waiting for bytes
\*            "chunk"         the generator has yielded a chunk (final: the flush)
\*            "transcribing"  suspended in stt_service.transcribe
\*            "exit"          leaving the try block, the finally clause is due
\*   task pc: "created" | "generating" (suspended in llm_service.generate_feedback)
\* The sends are taken not to suspend.  transcript_buffer, which nothing reads,
\* is left out.

\* StreamConsumer.__init__
feedback_interval == 20
min_words_for_feedback == 30
\* process_audio_stream, line 115
min_interval == 10

TextA == <<"ajax", "fetch()", "axios", "async", "await", "promise", "json",
           "http", "API", "dom">>
TextB == <<"Python", "variable", "function", "integer", "string", "list",
           "dict", "class", "object", "module">>
TextC == <<"a", "b", "c", "x=10", "...", "wae", "geurigo", "su", "gangui",
           "hajiman">>
TextLong == TextA \o TextA \o TextC

\* what stt_service.transcribe may return (None and '' are <<>>)
Transcripts == {<<>>, TextB, TextLong}

SessionInit ==
    /\ now = 0
    /\ is_streaming = FALSE
    /\ start_time = 0
    /\ last_feedback_time = 0
    /\ cache = NewCache(0)
    /\ audio_processor = 0
    /\ is_running = <<>>
    /\ loops = <<>>
    /\ tasks = <<>>
    /\ llm_ready \in BOOLEAN
    /\ sent = <<"connection">>
    /\ orphans = {}
    /\ ret = <<>>
    /\ history = <<>>

Busy == \E i \in 1..Len(loops) : loops[i].pc \in {"chunk", "exit"}

\* time passes, up to the horizon
Tick(horizon) ==
    /\ ~Busy
    /\ now < horizon
    /\ now' = now + 5
    /\ sent' = <<>>
    /\ UNCHANGED <<is_streaming, start_time, last_feedback_time, cache,
                   audio_processor, is_running, loops, tasks, llm_ready>>
    /\ UNCHANGED <<orphans, ret, history>>
    /\ UNCHANGED seg_vars

\* a start that does not look at is_streaming
ReceiveStartUnguarded(starts) ==
    /\ ~Busy
    /\ Len(is_running) < starts
    /\ is_streaming' = TRUE
    /\ cache' = Reset(cache, now)
    /\ start_time' = now
    /\ last_feedback_time' = now
    /\ is_running' = Append(is_running, FALSE)
    /\ audio_processor' = Len(is_running) + 1
    /\ loops' = Append(loops, [pc |-> "created", ap |-> 0, buf |-> FALSE, final |-> FALSE])
    /\ sent' = <<"status:starting">>
    /\ UNCHANGED <<now, tasks, llm_ready>>
    /\ UNCHANGED <<orphans, ret, history>>
    /\ UNCHANGED seg_vars

\* a start that sets last_feedback_time to the time of construction
ReceiveStartZeroesFeedbackTime(starts) ==
    /\ ~Busy
    /\ ~is_streaming
    /\ Len(is_running) < starts
    /\ is_streaming' = TRUE
    /\ cache' = Reset(cache, now)
    /\ start_time' = now
    /\ last_feedback_time' = 0
    /\ is_running' = Append(is_running, FALSE)
    /\ audio_processor' = Len(is_running) + 1
    /\ loops' = Append(loops, [pc |-> "created", ap |-> 0, buf |-> FALSE, final |-> FALSE])
    /\ sent' = <<"status:starting">>
    /\ UNCHANGED <<now, tasks, llm_ready>>
    /\ UNCHANGED <<orphans, ret, history>>
    /\ UNCHANGED seg_vars

\* receive {"action": "start", "url": ...} -> start_streaming, not streaming
ReceiveStart(starts) ==
    /\ ~Busy
    /\ ~is_streaming
    /\ Len(is_running) < starts
    /\ is_streaming' = TRUE
    /\ cache' = Reset(cache, now)
    /\ start_time' = now
    /\ last_feedback_time' = now
    /\ is_running' = Append(is_running, FALSE)
    /\ audio_processor' = Len(is_running) + 1
    /\ loops' = Append(loops, [pc |-> "created", ap |-> 0, buf |-> FALSE, final |-> FALSE])
    /\ sent' = <<"status:starting">>
    /\ UNCHANGED <<now, tasks, llm_ready>>
    /\ UNCHANGED <<orphans, ret, history>>
    /\ UNCHANGED seg_vars

\* start_streaming, then the first step of the task it created, which the
\* event loop runs before it hands the consumer another message: status
\* 'extracting', and stream_audio on the new processor up to the executor
ReceiveStartBegun(starts) ==
    /\ ~Busy
    /\ ~is_streaming
    /\ Len(is_running) < starts
    /\ is_streaming' = TRUE
    /\ cache' = Reset(cache, now)
    /\ start_time' = now
    /\ last_feedback_time' = now
    /\ is_running' = Append(is_running, TRUE)
    /\ audio_processor' = Len(is_running) + 1
    /\ loops' = Append(loops, [pc |-> "fetch", ap |-> Len(is_running) + 1,
                               buf |-> FALSE, final |-> FALSE])
    /\ sent' = <<"status:starting", "status:extracting">>
    /\ UNCHANGED <<now, tasks, llm_ready>>
    /\ UNCHANGED <<orphans, ret, history>>
    /\ UNCHANGED seg_vars

\* the messages receive() has no branch for
Malformed == {"unparseable", "not_object", "unknown_action", "missing_action",
              "start_without_url"}

\* StreamConsumer.receive on such a message: json.loads raises JSONDecodeError
\* (error event); data.get raises on a value that is no object and the
\* exception leaves receive (no event); an unknown or missing action, and a
\* start without url, fall through every branch (no event)
ReceiveMalformed(kind) ==
    /\ ~Busy
    /\ kind \in Malformed
    /\ sent' = IF kind = "unparseable" THEN <<"error">> ELSE <<>>
    /\ UNCHANGED <<now, is_streaming, start_time, last_feedback_time, cache,
                   audio_processor, is_running, loops, tasks, llm_ready>>
    /\ UNCHANGED <<orphans, ret, history>>
    /\ UNCHANGED seg_vars

\* start_streaming while streaming
ReceiveStartRejected ==
    /\ ~Busy
    /\ is_streaming
    /\ sent' = <<"error">>
    /\ UNCHANGED <<now, is_streaming, start_time, last_feedback_time, cache,
                   audio_processor, is_running, loops, tasks, llm_ready>>
    /\ UNCHANGED <<orphans, ret, history>>
    /\ UNCHANGED seg_vars

\* AudioProcessor.stop on processor ap
Stopped(running, ap) ==
    IF ap = 0 THEN running ELSE [running EXCEPT ![ap] = FALSE]

\* receive {"action": "stop"} -> stop_streaming
ReceiveStop ==
    /\ ~Busy
    /\ is_streaming' = FALSE
    /\ is_running' = Stopped(is_running, audio_processor)
    /\ sent' = <<"status:stopped">>
    /\ UNCHANGED <<now, start_time, last_feedback_time, cache, audio_processor,
                   loops, tasks, llm_ready>>
    /\ UNCHANGED <<orphans, ret, history>>
    /\ UNCHANGED seg_vars

\* a loop that leaves after any chunk
ResumeStops(l) == [l EXCEPT !.pc = "exit"]

\* the loop after the body of the async for has run on a chunk: the generator
\* is resumed; it is exhausted after the flush chunk, reads on while its
\* processor runs, and otherwise ends, yielding what the buffer holds
Resume(l) ==
    IF l.final THEN [l EXCEPT !.pc = "exit"]
    ELSE IF is_running[l.ap] THEN [l EXCEPT !.pc = "fetch"]
    ELSE IF l.buf THEN [l EXCEPT !.pc = "chunk", !.final = TRUE]
    ELSE [l EXCEPT !.pc = "exit"]

\* process_audio_stream starts: status 'extracting', then the first __anext__
\* of stream_audio_chunks on the processor of the moment, up to the executor
LoopBegin(i) ==
    /\ ~Busy
    /\ i \in 1..Len(loops)
    /\ loops[i].pc = "created"
    /\ loops' = [loops EXCEPT ![i] = [@ EXCEPT !.pc = "fetch", !.ap = audio_processor]]
    /\ is_running' = [is_running EXCEPT ![audio_processor] = TRUE]
    /\ sent' = <<"status:extracting">>
    /\ UNCHANGED <<now, is_streaming, start_time, last_feedback_time, cache,
                   audio_processor, tasks, llm_ready>>
    /\ UNCHANGED <<orphans, ret, history>>
    /\ UNCHANGED seg_vars

\* bytes arrive; full: they complete a chunk
LoopFetchData(i, full) ==
    /\ ~Busy
    /\ i \in 1..Len(loops)
    /\ loops[i].pc = "fetch"
    /\ loops' = [loops EXCEPT ![i] =
                    IF full THEN [@ EXCEPT !.pc = "chunk", !.buf = TRUE]
                    ELSE IF is_running[@.ap] THEN [@ EXCEPT !.buf = TRUE]
                    ELSE [@ EXCEPT !.pc = "chunk", !.buf = TRUE, !.final = TRUE]]
    /\ sent' = <<>>
    /\ UNCHANGED <<now, is_streaming, start_time, last_feedback_time, cache,
                   audio_processor, is_running, tasks, llm_ready>>
    /\ UNCHANGED <<orphans, ret, history>>
    /\ UNCHANGED seg_vars

\* the source ends: stream_audio stops the processor, the buffer is flushed
LoopFetchEnd(i) ==
    /\ ~Busy
    /\ i \in 1..Len(loops)
    /\ loops[i].pc = "fetch"
    /\ is_running' = Stopped(is_running, loops[i].ap)
    /\ loops' = [loops EXCEPT ![i] =
                    IF @.buf THEN [@ EXCEPT !.pc = "chunk", !.final = TRUE]
                    ELSE [@ EXCEPT !.pc = "exit"]]
    /\ sent' = <<>>
    /\ UNCHANGED <<now, is_streaming, start_time, last_feedback_time, cache,
                   audio_processor, tasks, llm_ready>>
    /\ UNCHANGED <<orphans, ret, history>>
    /\ UNCHANGED seg_vars

\* stream_audio raises ('Audio streaming error'): except Exception -> send_error
LoopFetchError(i) ==
    /\ ~Busy
    /\ i \in 1..Len(loops)
    /\ loops[i].pc = "fetch"
    /\ is_running' = Stopped(is_running, loops[i].ap)
    /\ loops' = [loops EXCEPT ![i] = [@ EXCEPT !.pc = "exit"]]
    /\ sent' = <<"error">>
    /\ UNCHANGED <<now, is_streaming, start_time, last_feedback_time, cache,
                   audio_processor, tasks, llm_ready>>
    /\ UNCHANGED <<orphans, ret, history>>
    /\ UNCHANGED seg_vars

\* if not self.is_streaming: break.  The generator is dropped where it is; if
\* it is not exhausted, stream_audio is still suspended at its yield, and its
\* finally clause (self.stop()) runs when the event loop closes the generator.
\* A processor that is stopped already has nothing left to close.
LoopBreak(i) ==
    /\ i \in 1..Len(loops)
    /\ loops[i].pc = "chunk"
    /\ ~is_streaming
    /\ loops' = [loops EXCEPT ![i] = [@ EXCEPT !.pc = "exit"]]
    /\ orphans' = IF ~loops[i].final /\ is_running[loops[i].ap]
                  THEN orphans \cup {loops[i].ap} ELSE orphans
    /\ sent' = <<>>
    /\ UNCHANGED <<now, is_streaming, start_time, last_feedback_time, cache,
                   audio_processor, is_running, tasks, llm_ready>>
    /\ UNCHANGED <<ret, history>>
    /\ UNCHANGED seg_vars

\* the event loop closes a dropped generator: GeneratorExit at the yield of
\* stream_audio, whose finally clause stops the processor
GenClose(p) ==
    /\ ~Busy
    /\ p \in orphans
    /\ orphans' = orphans \ {p}
    /\ is_running' = Stopped(is_running, p)
    /\ sent' = <<>>
    /\ UNCHANGED <<now, is_streaming, start_time, last_feedback_time, cache,
                   audio_processor, loops, tasks, llm_ready>>
    /\ UNCHANGED <<ret, history>>
    /\ UNCHANGED seg_vars

\* a loop that calls transcribe without looking at is_streaming
LoopTranscribeUnchecked(i, in_flight) ==
    /\ i \in 1..Len(loops)
    /\ loops[i].pc = "chunk"
    /\ loops' = [loops EXCEPT ![i] =
                    IF in_flight THEN [@ EXCEPT !.pc = "transcribing"] ELSE Resume(@)]
    /\ sent' = <<"status:streaming">>
    /\ UNCHANGED <<now, is_streaming, start_time, last_feedback_time, cache,
                   audio_processor, is_running, tasks, llm_ready>>
    /\ UNCHANGED <<orphans, ret, history>>
    /\ UNCHANGED seg_vars

\* status 'streaming', then stt_service.transcribe(audio_chunk): it returns None
\* at once (the chunk is only buffered, or there is no SDK or key), or it
\* suspends in the request (in_flight)
LoopTranscribe(i, in_flight) ==
    /\ i \in 1..Len(loops)
    /\ loops[i].pc = "chunk"
    /\ is_streaming
    /\ loops' = [loops EXCEPT ![i] =
                    IF in_flight THEN [@ EXCEPT !.pc = "transcribing"] ELSE Resume(@)]
    /\ sent' = <<"status:streaming">>
    /\ UNCHANGED <<now, is_streaming, start_time, last_feedback_time, cache,
                   audio_processor, is_running, tasks, llm_ready>>
    /\ UNCHANGED <<orphans, ret, history>>
    /\ UNCHANGED seg_vars

\* a trigger without the 10 s floor under the topic-change branch
\* a trigger that holds back while a feedback task is under way
ShouldTriggerSingleInFlight(time_since_last, analysis) ==
    /\ tasks = <<>>
    /\ \/ time_since_last >= feedback_interval
       \/ (analysis.topic_changed /\ time_since_last >= min_interval)
       \/ (Len(analysis.keywords) >= 3 /\ time_since_last >= 15)

ShouldTriggerNoFloor(time_since_last, analysis) ==
    \/ time_since_last >= 20
    \/ analysis.topic_changed
    \/ (Len(analysis.keywords) >= 3 /\ time_since_last >= 15)

\* a trigger that takes three keywords at any time
ShouldTriggerKeywordsAnyTime(time_since_last, analysis) ==
    \/ time_since_last >= 20
    \/ (analysis.topic_changed /\ time_since_last >= 10)
    \/ Len(analysis.keywords) >= 3

\* a trigger on the interval alone
ShouldTriggerIntervalOnly(time_since_last, analysis) ==
    time_since_last >= 20

\* should_trigger, lines 120-124
ShouldTrigger(time_since_last, analysis) ==
    \/ time_since_last >= feedback_interval
    \/ (analysis.topic_changed /\ time_since_last >= min_interval)
    \/ (Len(analysis.keywords) >= 3 /\ time_since_last >= 15)

\* the processors of the loops other than loop i that are suspended in a
\* transcribe call: the call of each may have returned, and the loop may be
\* resumed, before a task that loop i creates now takes its first step
Ahead(i) ==
    {loops[k].ap : k \in {k \in 1..Len(loops) : k # i /\ loops[k].pc = "transcribing"}}

\* the tasks once the loop of processor ap has been resumed from its call
Resumed(ts, ap) ==
    [j \in 1..Len(ts) |->
        IF ts[j].pc = "created" THEN [ts[j] EXCEPT !.ahead = @ \ {ap}] ELSE ts[j]]

\* the task loop i creates; by is the processor of that loop
NewTask(i) ==
    [pc |-> "created", prompt |-> <<>>, by |-> loops[i].ap, ahead |-> Ahead(i)]

\* a loop that awaits the feedback it asked for
DispatchAwaited(l) == [l EXCEPT !.pc = "await_feedback"]

\* asyncio.create_task(self.generate_feedback()): the loop goes on
Dispatch(l) == Resume(l)

\* the transcribe call returns; the window takes `window` transcripts
LoopTranscribed(i, transcript, window) ==
    /\ ~Busy
    /\ i \in 1..Len(loops)
    /\ loops[i].pc = "transcribing"
    /\ transcript # <<>> => Len(cache.transcripts) < window
    /\ IF transcript # <<>>
       THEN LET analysis == Analysis(cache, transcript)
                added == AddTranscript(cache, transcript)
                time_since_last == now - last_feedback_time
                fire == /\ ShouldTrigger(time_since_last, analysis)
                        /\ ShouldGenerateFeedback(added, min_words_for_feedback).should
            IN  /\ cache' = added
                /\ sent' = <<"transcript">>
                /\ tasks' = IF fire
                            THEN Append(Resumed(tasks, loops[i].ap), NewTask(i))
                            ELSE Resumed(tasks, loops[i].ap)
                /\ last_feedback_time' = IF fire THEN now ELSE last_feedback_time
                /\ loops' = [loops EXCEPT ![i] = IF fire THEN Dispatch(@) ELSE Resume(@)]
       ELSE /\ sent' = <<>>
            /\ loops' = [loops EXCEPT ![i] = Resume(@)]
            /\ tasks' = Resumed(tasks, loops[i].ap)
            /\ UNCHANGED <<cache, last_feedback_time>>
    /\ UNCHANGED <<now, is_streaming, start_time, audio_processor, is_running,
                   llm_ready>>
    /\ UNCHANGED <<orphans, ret, history>>
    /\ UNCHANGED seg_vars

\* a loop that leaves without clearing is_streaming
LoopExitKeepsFlag(i) ==
    /\ i \in 1..Len(loops)
    /\ loops[i].pc = "exit"
    /\ loops' = RemoveAt(loops, i)
    /\ sent' = <<"status:stopped">>
    /\ UNCHANGED <<now, is_streaming, start_time, last_feedback_time, cache,
                   audio_processor, is_running, tasks, llm_ready>>
    /\ UNCHANGED <<orphans, ret, history>>
    /\ UNCHANGED seg_vars

\* finally: self.is_streaming = False; status 'stopped'
LoopExit(i) ==
    /\ i \in 1..Len(loops)
    /\ loops[i].pc = "exit"
    /\ is_streaming' = FALSE
    /\ loops' = RemoveAt(loops, i)
    /\ sent' = <<"status:stopped">>
    /\ UNCHANGED <<now, start_time, last_feedback_time, cache, audio_processor,
                   is_running, tasks, llm_ready>>
    /\ UNCHANGED <<orphans, ret, history>>
    /\ UNCHANGED seg_vars

\* if feedback: add_feedback(feedback); send the 'feedback' event
Deliver(c, feedback) == IF feedback # None THEN AddFeedback(c, feedback) ELSE c

\* generate_feedback starts: the context is read; too few words: return;
\* without a model llm_service answers with its fallback at once
FeedbackBegin(j) ==
    /\ ~Busy
    /\ j \in 1..Len(tasks)
    /\ tasks[j].pc = "created"
    /\ LET cache_ctx == GetFeedbackContext(cache, now)
           context_text == cache_ctx.recent_text
       IN  IF Len(context_text) < min_words_for_feedback
           THEN /\ tasks' = RemoveAt(tasks, j)
                /\ sent' = <<>>
                /\ UNCHANGED cache
           ELSE IF ~llm_ready
           THEN /\ tasks' = RemoveAt(tasks, j)
                /\ cache' = Deliver(cache, FallbackResponse(context_text))
                /\ sent' = <<"feedback">>
           ELSE /\ tasks' = [tasks EXCEPT ![j] =
                                [pc |-> "generating",
                                 prompt |-> Prompt(context_text, cache_ctx)]]
                /\ sent' = <<>>
                /\ UNCHANGED cache
    /\ UNCHANGED <<now, is_streaming, start_time, last_feedback_time,
                   audio_processor, is_running, loops, llm_ready>>
    /\ UNCHANGED <<orphans, ret, history>>
    /\ UNCHANGED seg_vars

\* llm_service.generate_feedback returns
FeedbackComplete(j, outcome) ==
    /\ ~Busy
    /\ j \in 1..Len(tasks)
    /\ tasks[j].pc = "generating"
    /\ outcome \in Outcomes
    /\ LET feedback == GenerateFeedback(outcome, tasks[j].prompt.context)
       IN  /\ cache' = Deliver(cache, feedback)
           /\ sent' = IF feedback # None THEN <<"feedback">> ELSE <<>>
    /\ tasks' = RemoveAt(tasks, j)
    /\ UNCHANGED <<now, is_streaming, start_time, last_feedback_time,
                   audio_processor, is_running, loops, llm_ready>>
    /\ UNCHANGED <<orphans, ret, history>>
    /\ UNCHANGED seg_vars

\* the segmenter at rest, as the session specification keeps it
SegIdle ==
    /\ chunk_duration = <<2, 1>>
    /\ overlap = <<2, 10>>
    /\ stream = <<>>
    /\ pos = 0
    /\ buffer = <<>>
    /\ chunks = <<>>
    /\ seg_pc = "read"

Init == SessionInit /\ SegIdle

\* what one ingestion loop does
LoopStep(i, window) ==
    \/ LoopBegin(i)
    \/ \E full \in BOOLEAN : LoopFetchData(i, full)
    \/ LoopFetchEnd(i)
    \/ LoopFetchError(i)
    \/ LoopBreak(i)
    \/ \E in_flight \in BOOLEAN : LoopTranscribe(i, in_flight)
    \/ \E transcript \in Transcripts : LoopTranscribed(i, transcript, window)
    \/ LoopExit(i)

\* what one feedback task does
FeedbackStep(j) ==
    \/ FeedbackBegin(j)
    \/ \E outcome \in Outcomes : FeedbackComplete(j, outcome)

\* a connection: any start and stop messages
Next ==
    \/ Tick(MaxTime)
    \/ ReceiveStart(MaxStarts)
    \/ ReceiveStartRejected
    \/ ReceiveStop
    \/ \E i \in 1..Len(loops) : LoopBegin(i)
    \/ \E i \in 1..Len(loops), full \in BOOLEAN : LoopFetchData(i, full)
    \/ \E i \in 1..Len(loops) : LoopFetchEnd(i)
    \/ \E i \in 1..Len(loops) : LoopFetchError(i)
    \/ \E i \in 1..Len(loops) : LoopBreak(i)
    \/ \E i \in 1..Len(loops), in_flight \in BOOLEAN : LoopTranscribe(i, in_flight)
    \/ \E i \in 1..Len(loops), transcript \in Transcripts :
           LoopTranscribed(i, transcript, MaxWindow)
    \/ \E i \in 1..Len(loops) : LoopExit(i)
    \/ \E p \in orphans : GenClose(p)
    \/ \E j \in 1..Len(tasks) : FeedbackBegin(j)
    \/ \E j \in 1..Len(tasks), outcome \in Outcomes : FeedbackComplete(j, outcome)

Spec == Init /\ [][Next]_vars

\* a connection that accepts one start, over a longer time
SessionNext ==
    \/ Tick(LongTime)
    \/ ReceiveStart(1)
    \/ ReceiveStartRejected
    \/ ReceiveStop
    \/ \E i \in 1..Len(loops) : LoopBegin(i)
    \/ \E i \in 1..Len(loops), full \in BOOLEAN : LoopFetchData(i, full)
    \/ \E i \in 1..Len(loops) : LoopFetchEnd(i)
    \/ \E i \in 1..Len(loops) : LoopFetchError(i)
    \/ \E i \in 1..Len(loops) : LoopBreak(i)
    \/ \E i \in 1..Len(loops), in_flight \in BOOLEAN : LoopTranscribe(i, in_flight)
    \/ \E i \in 1..Len(loops), transcript \in Transcripts :
           LoopTranscribed(i, transcript, LongWindow)
    \/ \E i \in 1..Len(loops) : LoopExit(i)
    \/ \E p \in orphans : GenClose(p)
    \/ \E j \in 1..Len(tasks) : FeedbackBegin(j)
    \/ \E j \in 1..Len(tasks), outcome \in Outcomes : FeedbackComplete(j, outcome)

SessionSpec == Init /\ [][SessionNext]_vars

\* a connection over no time: start and stop messages and the ingestion loops,
\* a window of one transcript.  No feedback task runs, so the state of the
\* model service is not read; the transcriber answers nothing or one text
LifeInit == Init /\ llm_ready

LifeTranscripts == {<<>>, TextB}

LifeNext ==
    \/ ReceiveStart(MaxStarts)
    \/ ReceiveStartRejected
    \/ ReceiveStop
    \/ \E i \in 1..Len(loops) : LoopBegin(i)
    \/ \E i \in 1..Len(loops), full \in BOOLEAN : LoopFetchData(i, full)
    \/ \E i \in 1..Len(loops) : LoopFetchEnd(i)
    \/ \E i \in 1..Len(loops) : LoopFetchError(i)
    \/ \E i \in 1..Len(loops) : LoopBreak(i)
    \/ \E i \in 1..Len(loops), in_flight \in BOOLEAN : LoopTranscribe(i, in_flight)
    \/ \E i \in 1..Len(loops), transcript \in LifeTranscripts :
           LoopTranscribed(i, transcript, 1)
    \/ \E i \in 1..Len(loops) : LoopExit(i)
    \/ \E p \in orphans : GenClose(p)

LifeSpec == LifeInit /\ [][LifeNext]_vars

\* a step that takes loop i further: any of its steps but a read that leaves
\* the chunk incomplete
LoopProgress(i) ==
    \/ LoopBegin(i)
    \/ LoopFetchData(i, TRUE)
    \/ LoopFetchEnd(i)
    \/ LoopFetchError(i)
    \/ LoopBreak(i)
    \/ \E in_flight \in BOOLEAN : LoopTranscribe(i, in_flight)
    \/ \E transcript \in LifeTranscripts : LoopTranscribed(i, transcript, 1)
    \/ LoopExit(i)

\* the same, where every loop gets further in the end: the event loop runs
\* every task that is ready, the transcriber answers, and a source that is read
\* completes a chunk, ends or fails
FairLifeSpec ==
    LifeSpec /\ \A i \in 1..MaxStarts : WF_vars(LoopProgress(i))

\* a connection over no time, with any messages, where every loop has taken
\* its first step when the next message is handled
RestartNext ==
    \/ ReceiveStartBegun(MaxRestarts)
    \/ ReceiveStartRejected
    \/ ReceiveStop
    \/ \E kind \in Malformed : ReceiveMalformed(kind)
    \/ \E i \in 1..Len(loops), full \in BOOLEAN : LoopFetchData(i, full)
    \/ \E i \in 1..Len(loops) : LoopFetchEnd(i)
    \/ \E i \in 1..Len(loops) : LoopFetchError(i)
    \/ \E i \in 1..Len(loops) : LoopBreak(i)
    \/ \E i \in 1..Len(loops), in_flight \in BOOLEAN : LoopTranscribe(i, in_flight)
    \/ \E i \in 1..Len(loops), transcript \in Transcripts :
           LoopTranscribed(i, transcript, 1)
    \/ \E i \in 1..Len(loops) : LoopExit(i)
    \/ \E p \in orphans : GenClose(p)

RestartSpec == Init /\ [][RestartNext]_vars

\* the end-to-end scenario: one start at 0 s or 5 s, no stop, an endless
\* source, and one 10-word transcript at each of 5 s, 10 s, ..., 25 s
TenWordTexts == {TextA, TextB, TextC}

\* the transcript of this instant has not arrived yet
E2EDue == is_streaming /\ Len(cache.transcripts) < now \div 5

E2ETick ==
    /\ is_streaming => ~E2EDue
    /\ ~is_streaming => now < 5
    /\ Tick(25)

E2ETranscribed(i, transcript) ==
    /\ E2EDue
    /\ LoopTranscribed(i, transcript, 5)

E2ENext ==
    \/ E2ETick
    \/ ReceiveStart(1)
    \/ \E i \in 1..Len(loops) : LoopBegin(i)
    \/ \E i \in 1..Len(loops) : LoopFetchData(i, TRUE)
    \/ \E i \in 1..Len(loops) : LoopTranscribe(i, TRUE)
    \/ \E i \in 1..Len(loops), transcript \in TenWordTexts : E2ETranscribed(i, transcript)
    \/ \E j \in 1..Len(tasks) : FeedbackBegin(j)
    \/ \E j \in 1..Len(tasks), outcome \in Outcomes : FeedbackComplete(j, outcome)

E2ESpec == Init /\ [][E2ENext]_vars

\* a connection over time with one restart, where every read completes a chunk
\* or finds the source at its end, the transcriber returns a text and the
\* model service answers
TimedTranscripts == {TextB, TextLong}

TimedNext ==
    \/ Tick(MaxTime)
    \/ ReceiveStart(2)
    \/ ReceiveStop
    \/ \E i \in 1..Len(loops) : LoopBegin(i)
    \/ \E i \in 1..Len(loops) : LoopFetchData(i, TRUE)
    \/ \E i \in 1..Len(loops) : LoopFetchEnd(i)
    \/ \E i \in 1..Len(loops) : LoopBreak(i)
    \/ \E i \in 1..Len(loops), in_flight \in BOOLEAN : LoopTranscribe(i, in_flight)
    \/ \E i \in 1..Len(loops), transcript \in TimedTranscripts :
           LoopTranscribed(i, transcript, MaxWindow)
    \/ \E i \in 1..Len(loops) : LoopExit(i)
    \/ \E p \in orphans : GenClose(p)
    \/ \E j \in 1..Len(tasks) : FeedbackBegin(j)
    \/ \E j \in 1..Len(tasks) : FeedbackComplete(j, "text")

TimedSpec == LifeInit /\ [][TimedNext]_vars

\* two sessions on one connection in the first seconds, with a window of
\* three transcripts: the loop of the first session may outlive its stop
RaceNext ==
    \/ Tick(MaxTime)
    \/ ReceiveStart(2)
    \/ ReceiveStop
    \/ \E i \in 1..Len(loops) : LoopBegin(i)
    \/ \E i \in 1..Len(loops) : LoopFetchData(i, TRUE)
    \/ \E i \in 1..Len(loops) : LoopFetchEnd(i)
    \/ \E i \in 1..Len(loops) : LoopBreak(i)
    \/ \E i \in 1..Len(loops), in_flight \in BOOLEAN : LoopTranscribe(i, in_flight)
    \/ \E i \in 1..Len(loops), transcript \in TimedTranscripts :
           LoopTranscribed(i, transcript, LongWindow)
    \/ \E i \in 1..Len(loops) : LoopExit(i)
    \/ \E p \in orphans : GenClose(p)
    \/ \E j \in 1..Len(tasks) : FeedbackBegin(j)
    \/ \E j \in 1..Len(tasks) : FeedbackComplete(j, "text")

RaceSpec == LifeInit /\ [][RaceNext]_vars

\* one session over a longer time, where every read completes a chunk or
\* finds the source at its end, the transcriber returns a text and the model
\* service answers
OverlapNext ==
    \/ Tick(LongTime)
    \/ ReceiveStart(1)
    \/ ReceiveStop
    \/ \E i \in 1..Len(loops) : LoopBegin(i)
    \/ \E i \in 1..Len(loops) : LoopFetchData(i, TRUE)
    \/ \E i \in 1..Len(loops) : LoopFetchEnd(i)
    \/ \E i \in 1..Len(loops) : LoopBreak(i)
    \/ \E i \in 1..Len(loops), in_flight \in BOOLEAN : LoopTranscribe(i, in_flight)
    \/ \E i \in 1..Len(loops), transcript \in TimedTranscripts :
           LoopTranscribed(i, transcript, LongWindow)
    \/ \E i \in 1..Len(loops) : LoopExit(i)
    \/ \E p \in orphans : GenClose(p)
    \/ \E j \in 1..Len(tasks) : FeedbackBegin(j)
    \/ \E j \in 1..Len(tasks) : FeedbackComplete(j, "text")

OverlapSpec == LifeInit /\ [][OverlapNext]_vars

\* ---- the context cache alone: any sequence of its public calls

MaxCapacity == 2
MaxAdds == 3
MaxFeedbacks == 1

\* the thresholds a caller passes: one word, the default of the method, the
\* value of the consumer
MinWords == {1, 20, min_words_for_feedback}

\* the texts a caller adds
CacheTexts == {TextB, TextC, TextLong}

\* a cache of some capacity, freshly constructed; no session is running.
\* history is the texts added since the last reset, ret the last return value
CacheInitOf(capacities) ==
    /\ cache \in {NewCacheOf(capacity, 0) : capacity \in capacities}
    /\ now = 0
    /\ is_streaming = FALSE
    /\ start_time = 0
    /\ last_feedback_time = 0
    /\ audio_processor = 0
    /\ is_running = <<>>
    /\ loops = <<>>
    /\ tasks = <<>>
    /\ llm_ready = TRUE
    /\ sent = <<>>
    /\ orphans = {}
    /\ ret = <<>>
    /\ history = <<>>
    /\ SegIdle

CacheInit == CacheInitOf(1..MaxCapacity)

CacheIdle ==
    /\ UNCHANGED <<now, is_streaming, start_time, last_feedback_time,
                   audio_processor, is_running, loops, tasks, llm_ready, sent,
                   orphans>>
    /\ UNCHANGED seg_vars

\* context_cache.add_transcript(text, timestamp)
CacheAdd(text, adds) ==
    /\ Len(history) < adds
    /\ cache' = AddTranscript(cache, text)
    /\ ret' = Analysis(cache, text)
    /\ history' = Append(history, text)
    /\ CacheIdle

\* context_cache.should_generate_feedback(min_words)
CacheShould(min_words) ==
    /\ ret' = ShouldGenerateFeedback(cache, min_words)
    /\ UNCHANGED <<cache, history>>
    /\ CacheIdle

\* context_cache.get_feedback_context()
CacheContext ==
    /\ ret' = GetFeedbackContext(cache, now)
    /\ UNCHANGED <<cache, history>>
    /\ CacheIdle

\* context_cache.add_feedback(feedback)
CacheAddFeedback(feedback, feedbacks) ==
    /\ Len(cache.previous_feedbacks) < feedbacks
    /\ cache' = AddFeedback(cache, feedback)
    /\ ret' = <<>>
    /\ UNCHANGED history
    /\ CacheIdle

\* context_cache.reset()
CacheReset ==
    /\ cache' = Reset(cache, now)
    /\ ret' = <<>>
    /\ history' = <<>>
    /\ CacheIdle

CacheNext ==
    \/ \E text \in CacheTexts : CacheAdd(text, MaxAdds)
    \/ \E min_words \in MinWords : CacheShould(min_words)
    \/ CacheContext
    \/ CacheAddFeedback("feedback", MaxFeedbacks)
    \/ CacheReset

CacheSpec == CacheInit /\ [][CacheNext]_vars

\* ---- the context cache under short texts: every selection of five keywords

MaxTopicAdds == 2

TopicWords == <<"ajax", "json", "http", "dom", "axios">>

\* the words of TopicWords at the positions in S, in order
RECURSIVE Selection(_, _)
Selection(S, i) ==
    IF i > Len(TopicWords) THEN <<>>
    ELSE (IF i \in S THEN <<TopicWords[i]>> ELSE <<>>) \o Selection(S, i + 1)

TopicTexts == {Selection(S, 1) : S \in SUBSET (1..Len(TopicWords))}

TopicNext ==
    \/ \E text \in TopicTexts : CacheAdd(text, MaxTopicAdds)
    \/ CacheShould(1)
    \/ CacheReset

\* a window of two, so that the recent entries can differ from the snapshot
TopicInit == CacheInit /\ cache.maxlen = 2

TopicSpec == TopicInit /\ [][TopicNext]_vars

\* ---- the feedback history of the context cache

MaxFeedbackAdds == 12

Feedbacks == {<<"llm", 1>>, <<"fallback_wait", 0>>}

\* context_cache.add_feedback(feedback), history taking the feedbacks
FeedbackAdd(feedback, adds) ==
    /\ Len(history) < adds
    /\ cache' = AddFeedback(cache, feedback)
    /\ ret' = <<>>
    /\ history' = Append(history, feedback)
    /\ CacheIdle

FeedbackNext ==
    \/ \E feedback \in Feedbacks : FeedbackAdd(feedback, MaxFeedbackAdds)
    \/ CacheContext
    \/ CacheReset

FeedbackInit == CacheInit /\ cache.maxlen = 1

FeedbackSpec == FeedbackInit /\ [][FeedbackNext]_vars

\* ---- the context bundle of the consumer's cache, over a long window

MaxContextAdds == 16

\* a text of one word, and two longer ones
Filler == <<"ajax">>
ContextTexts == {Filler, TextB, <<"json", "http", "json", "ajax">>}

\* add_transcript, each of the longer texts at most once
ContextAdd(text, adds) ==
    /\ text = Filler \/ text \notin SeqToSet(history)
    /\ CacheAdd(text, adds)

ContextNext ==
    \/ \E text \in ContextTexts : ContextAdd(text, MaxContextAdds)
    \/ CacheContext
    \/ CacheShould(min_words_for_feedback)
    \/ CacheReset

\* the cache as the consumer creates it
ContextInit == CacheInitOf({max_history})

ContextSpec == ContextInit /\ [][ContextNext]_vars

\* the segmenter alone, the session at rest
SegSpecInit == SegInit /\ SessionInit

SegSpec == SegSpecInit /\ [][SegNext]_vars

\* ===================================================================== claims

\* ---- the segmenter (SegSpec)

IsFull(c) == ~c.final /\ Len(c.data) = chunk_bytes

\* C3: under a documented configuration (chunk_duration > 0, 0 <= overlap < 0.5)
\* every emitted chunk except possibly the last has exactly chunk_bytes bytes,
\* and the last overlap_bytes bytes of each chunk that has a successor are the
\* first overlap_bytes bytes of that successor (as far as the successor is long).
C3_ChunkShape ==
    ValidConfig =>
        \A i \in 1..Len(chunks) :
            i < Len(chunks) =>
                /\ Len(chunks[i].data) = chunk_bytes
                /\ LET nxt == chunks[i + 1].data
                       m == Min(overlap_bytes, Len(nxt))
                   IN  SubSeq(chunks[i].data, step_bytes + 1, step_bytes + m)
                          = SubSeq(nxt, 1, m)

\* C3 witness: a finished run with overlap that gave two full chunks and a flush
C3_Witness ==
    /\ ValidConfig /\ overlap_bytes >= 1 /\ seg_pc = "done"
    /\ Len(chunks) = 3 /\ chunks[3].final
    /\ stream = <<1, 2, 3, 4, 5>>

\* the k with Len(stream) = chunk_bytes + k * step_bytes, when there is one
OnStepBoundary(k) == Len(stream) = chunk_bytes + k * step_bytes

\* C4 as stated: an input of chunk_bytes + k*step_bytes bytes gives exactly k+1
\* full chunks and no final flush chunk.
C4_Original ==
    (seg_pc = "done" /\ ValidConfig /\ chunk_bytes >= 1) =>
        \A k \in 0..MaxInput :
            OnStepBoundary(k) =>
                /\ Len(chunks) = k + 1
                /\ \A i \in 1..Len(chunks) : IsFull(chunks[i])

\* C4 amended: an input of chunk_bytes + k*step_bytes bytes gives exactly k+1
\* full chunks, followed by one final flush chunk holding the retained
\* overlap_bytes last bytes of the input when overlap_bytes > 0, and by no
\* flush chunk when overlap_bytes = 0.
C4_Amended ==
    (seg_pc = "done" /\ ValidConfig /\ chunk_bytes >= 1) =>
        \A k \in 0..MaxInput :
            OnStepBoundary(k) =>
                /\ Len(chunks) = k + 1 + (IF overlap_bytes > 0 THEN 1 ELSE 0)
                /\ \A i \in 1..(k + 1) : IsFull(chunks[i])
                /\ overlap_bytes > 0 =>
                       /\ chunks[k + 2].final
                       /\ chunks[k + 2].data =
                              SubSeq(stream, Len(stream) - overlap_bytes + 1, Len(stream))

\* C4 witness: two full chunks from chunk_bytes + step_bytes bytes, then the flush
C4_Witness ==
    /\ seg_pc = "done" /\ ValidConfig /\ overlap_bytes = 1 /\ chunk_bytes = 3
    /\ OnStepBoundary(1)
    /\ Len(chunks) = 3 /\ chunks[3] = [data |-> <<5>>, final |-> TRUE]

\* C5 as stated: under a configuration outside the documented ranges no chunk
\* is ever produced (the call is rejected first).
C5_InvalidConfigRejected == ~ValidConfig => chunks = <<>>

\* C6 as stated: every emission strictly shortens the buffer, whatever the
\* configuration the call accepted, so the emit loop ends after each append.
C6_EmitShortensBuffer ==
    seg_pc = "emit" => Len(Advance(buffer)) < Len(buffer)

\* C31: an input shorter than chunk_bytes gives no chunk while the source is
\* being read; at the end of the source it gives no chunk when the input is
\* empty and otherwise exactly one chunk, the final flush, equal to the whole
\* input.  For every input the final flush is emitted at most once: a final
\* chunk is the last chunk, and it exists only once the generator is done.
C31_ShortStream ==
    /\ Len(stream) < chunk_bytes =>
           /\ seg_pc # "done" => chunks = <<>>
           /\ seg_pc = "done" =>
                  chunks = IF stream = <<>>
                           THEN <<>>
                           ELSE <<[data |-> stream, final |-> TRUE]>>
    /\ \A i \in 1..Len(chunks) :
           chunks[i].final => (i = Len(chunks) /\ seg_pc = "done")

\* C31 witness: a two-byte input under a three-byte chunk, read to its end
C31_Witness ==
    /\ seg_pc = "done" /\ chunk_bytes = 3
    /\ stream = <<1, 2>>
    /\ chunks = <<[data |-> <<1, 2>>, final |-> TRUE]>>

\* the first step_bytes bytes of each full chunk in emission order, followed
\* by the whole final flush chunk
RECURSIVE Rebuilt(_)
Rebuilt(cs) ==
    IF cs = <<>>
    THEN <<>>
    ELSE (IF Head(cs).final
          THEN Head(cs).data
          ELSE PySliceTo(Head(cs).data, step_bytes)) \o Rebuilt(Tail(cs))

\* C34: under a configuration with 1 <= step_bytes <= chunk_bytes no input is
\* lost: when the generator is done, the first step_bytes bytes of each full
\* chunk in emission order, followed by the final flush chunk if there is one,
\* are exactly the input; before that, the same bytes followed by the buffer
\* are exactly the input read so far.  So every input byte is in an emitted
\* chunk and the chunks come in stream order.
C34_NoInputLost ==
    (1 <= step_bytes /\ step_bytes <= chunk_bytes) =>
        /\ seg_pc # "done" => Rebuilt(chunks) \o buffer = PySliceTo(stream, pos)
        /\ seg_pc = "done" => Rebuilt(chunks) = stream

\* C34 witness: five bytes under three-byte chunks overlapping by one byte
\* gave two full chunks and a flush that together give back the input
C34_Witness ==
    /\ seg_pc = "done" /\ chunk_bytes = 3 /\ step_bytes = 2
    /\ stream = <<1, 2, 3, 4, 5>>
    /\ Len(chunks) = 3 /\ chunks[3].final
    /\ chunks[2].data = <<3, 4, 5>>
    /\ Rebuilt(chunks) = stream

\* ---- the session (Spec, SessionSpec, E2ESpec, OverlapSpec)

\* the step is a dispatch: the ingestion loop created a feedback task
Dispatched == Len(tasks') = Len(tasks) + 1

\* the step analysed a transcript
TranscriptAdded == Len(cache'.transcripts) = Len(cache.transcripts) + 1

\* the transcript the step analysed: its keywords, and whether it changed topic
LatestKeywords == ExtractKeywords(cache'.transcripts[Len(cache'.transcripts)])
LatestChangedTopic == DetectTopicChange(cache, SeqToSet(LatestKeywords))

\* words of the (at most three) latest transcripts after the step
RecentWords == Len(JoinTexts(LastN(cache'.transcripts, 3)))

\* C1 as stated: a feedback task is dispatched only when
\* now - last_feedback_time >= feedback_interval and
\* should_generate_feedback(min_words).should holds.
C1_Original ==
    [][Dispatched =>
          /\ now - last_feedback_time >= feedback_interval
          /\ ShouldGenerateFeedback(cache', min_words_for_feedback).should]_vars

\* C1 amended: a feedback task is dispatched only when
\* should_generate_feedback(min_words).should holds and either
\* now - last_feedback_time >= feedback_interval, or the transcript changed the
\* topic and at least 10 s have passed, or the transcript has at least 3
\* keywords and at least 15 s have passed; no dispatch ever happens with less
\* than 10 s since the previous dispatch (or since start), and the dispatch
\* records now as last_feedback_time.
C1_Amended ==
    [][Dispatched =>
          LET since == now - last_feedback_time
          IN  /\ since >= 10
              /\ \/ since >= feedback_interval
                 \/ LatestChangedTopic
                 \/ (Len(LatestKeywords) >= 3 /\ since >= 15)
              /\ ShouldGenerateFeedback(cache', min_words_for_feedback).should
              /\ last_feedback_time' = now]_vars

\* C1 witness: the first dispatch of a session came 10 s after its start, on a
\* topic change, and its task is still pending
C1_Witness ==
    /\ is_streaming
    /\ last_feedback_time = start_time + 10
    /\ tasks # <<>>
    /\ Len(cache.transcripts) >= 2

\* C2 as stated: in the end-to-end scenario, before any dispatch, a transcript
\* is followed by a dispatch exactly when at least 20 s have passed since start
\* and the recent transcripts hold at least 30 words.
C2_Original ==
    [][(TranscriptAdded /\ last_feedback_time = start_time) =>
          (Dispatched <=> (now - start_time >= 20 /\ RecentWords >= 30))]_vars

\* C2 amended: in the end-to-end scenario, before any dispatch, a transcript
\* is followed by a dispatch exactly when the recent transcripts hold at least
\* 30 words and either at least 20 s have passed since start, or the transcript
\* changed the topic and at least 10 s have passed, or the transcript has at
\* least 3 keywords and at least 15 s have passed.
C2_Amended ==
    [][(TranscriptAdded /\ last_feedback_time = start_time) =>
          (Dispatched <=>
              /\ RecentWords >= 30
              /\ \/ now - start_time >= 20
                 \/ (LatestChangedTopic /\ now - start_time >= 10)
                 \/ (Len(LatestKeywords) >= 3 /\ now - start_time >= 15))]_vars

\* C2 witness: start at 0 s, the third transcript at 15 s was the first to be
\* followed by a dispatch
C2_Witness ==
    /\ start_time = 0 /\ now = 15
    /\ Len(cache.transcripts) = 3
    /\ last_feedback_time = 15
    /\ Len(tasks) = 1

\* C7 as stated: at most one transcribe call is in flight on a connection.
C7_OneTranscribeInFlight ==
    Cardinality({i \in 1..Len(loops) : loops[i].pc = "transcribing"}) <= 1

\* C8 as stated: no step of a feedback task changes the context cache (its
\* feedback history included), is_streaming or last_feedback_time.
C8_TaskLeavesSessionState ==
    [][(\E j \in 1..Len(tasks) : FeedbackStep(j)) =>
          UNCHANGED <<cache, is_streaming, last_feedback_time>>]_vars

\* C9 as stated: when the model call of a feedback task fails, no event is sent
\* for the task and the cache, is_streaming and last_feedback_time stay as
\* they are.
C9_FailureIsSilent ==
    [][\A j \in 1..Len(tasks) :
          FeedbackComplete(j, "error") =>
              /\ sent' = <<>>
              /\ UNCHANGED <<cache, is_streaming, last_feedback_time>>]_vars

\* C10: while a feedback task is pending the ingestion loop is never held up:
\* whatever point it is at, its next step can be taken (it fetches, transcribes,
\* analyses or leaves), and no loop is at a point where it waits for a task.
C10_DispatchDoesNotBlock ==
    tasks # <<>> =>
        \A i \in 1..Len(loops) :
            /\ loops[i].pc \in {"created", "fetch", "chunk", "transcribing", "exit"}
            /\ ENABLED LoopStep(i, LongWindow)

\* C10 witness: a task is suspended in the model call, the cache has since
\* taken a further transcript, and the loop has another transcribe call in flight
C10_Witness ==
    /\ \E j \in 1..Len(tasks) :
          /\ tasks[j].pc = "generating"
          /\ Len(tasks[j].prompt.context) < Len(JoinTexts(cache.transcripts))
    /\ \E i \in 1..Len(loops) : loops[i].pc = "transcribing"
    /\ cache.previous_feedbacks = <<>>

\* C29: nothing keeps two feedback tasks apart: whenever a transcript is
\* analysed and the trigger fires (the three latest transcripts hold min_words
\* words, and 20 s have passed, or 15 s and the transcript has three keywords,
\* or 10 s and it changed the topic), a task is created, whatever tasks are
\* under way; so with a model call that takes longer than the time between two
\* firings, two tasks of one session are in flight at once.
C29_NoMutualExclusion ==
    [][(/\ TranscriptAdded
        /\ now - last_feedback_time >= 10
        /\ RecentWords >= min_words_for_feedback
        /\ LET since == now - last_feedback_time
           IN  \/ since >= feedback_interval
               \/ (since >= 15 /\ Len(LatestKeywords) >= 3)
               \/ LatestChangedTopic)
       => /\ Dispatched
          /\ SubSeq(tasks', 1, Len(tasks)) = tasks]_vars

\* two tasks of the one session are suspended in the model call, the second
\* dispatched at least 10 s after the first
C29_Witness ==
    /\ Len(is_running) = 1
    /\ Len(tasks) >= 2
    /\ tasks[1].pc = "generating"
    /\ tasks[2].pc = "generating"
    /\ last_feedback_time >= start_time + 20

\* the step is an accepted start: it created an audio processor
StartAccepted == Len(is_running') = Len(is_running) + 1

\* C33: within a session two consecutive dispatches are at least min_interval
\* seconds apart and the first is at least min_interval seconds after the
\* start, whatever the transcripts are: last_feedback_time is set to the
\* current time by an accepted start and by a dispatch and changed by nothing
\* else, so it is the time of the latest of them, and a dispatch happens only
\* min_interval seconds or more after it.
C33_DispatchesTenSecondsApart ==
    [][/\ Dispatched =>
              /\ now - last_feedback_time >= min_interval
              /\ last_feedback_time' = now
       /\ StartAccepted =>
              /\ last_feedback_time' = now
              /\ start_time' = now
       /\ (~Dispatched /\ ~StartAccepted) =>
              last_feedback_time' = last_feedback_time]_vars

\* C33 witness: two tasks of the one session are pending, the second was
\* dispatched 20 s after the start; the first came 10 s after the start, on
\* an early trigger, 10 s before the second
C33_Witness ==
    /\ Len(is_running) = 1
    /\ start_time = 0
    /\ last_feedback_time = 20
    /\ Len(tasks) = 2
    /\ is_streaming

\* loop i returns from its transcribe call in the step
Transcribed(i) ==
    /\ loops[i].pc = "transcribing"
    /\ Len(loops') = Len(loops)
    /\ loops'[i] # loops[i]

\* C32 as stated, for the transcripts of the other loops: between the dispatch
\* of a feedback task and the first step of the task, where generate_feedback
\* reads the context it passes on, no loop that was suspended in a transcribe
\* call at the dispatch adds the transcript of that call to the cache.  (The
\* loop that dispatched cannot add another: the event loop runs the first step
\* of the task before that loop is resumed from its next transcribe call.)
C32_ContextAsDispatched ==
    [][\A i \in 1..Len(loops) :
          (/\ Transcribed(i)
           /\ \E j \in 1..Len(tasks) :
                 /\ tasks[j].pc = "created"
                 /\ tasks[j].by # loops[i].ap
                 /\ loops[i].ap \in tasks[j].ahead)
          => ~TranscriptAdded]_vars

\* ---- the lifecycle of a connection (LifeSpec)

\* C11: a start received while the session is streaming is answered with an
\* error event and changes nothing; so while the session is streaming no step
\* creates an ingestion loop or an audio processor, replaces the current
\* processor, moves start_time or resets the context cache, and the rejected
\* start leaves is_streaming true and last_feedback_time as it was.
C11_StartWhileStreamingRejected ==
    [][/\ is_streaming =>
              /\ Len(loops') <= Len(loops)
              /\ Len(is_running') = Len(is_running)
              /\ audio_processor' = audio_processor
              /\ start_time' = start_time
              /\ cache'.session_start = cache.session_start
              /\ cache.transcripts # <<>> => cache'.transcripts # <<>>
       /\ ReceiveStartRejected =>
              /\ sent' = <<"error">>
              /\ is_streaming'
              /\ UNCHANGED <<cache, start_time, last_feedback_time,
                             audio_processor, is_running, loops>>]_vars

\* C11 witness: a start was just rejected in a session that has a transcript
\* in its cache and a loop at work
C11_Witness ==
    /\ sent = <<"error">> /\ is_streaming /\ ~Busy
    /\ cache.transcripts # <<>>
    /\ loops # <<>>

C13_TranscriptionFailureSkipsChunk ==
    [][\A i \in 1..Len(loops) :
          LoopTranscribed(i, <<>>, LongWindow) =>
              /\ UNCHANGED <<cache, tasks, last_feedback_time, is_streaming>>
              /\ sent' = <<>>
              /\ Len(loops') = Len(loops)
              /\ (is_running[loops[i].ap] /\ ~loops[i].final) =>
                     loops'[i].pc = "fetch"
              /\ loops'[i].pc = "exit" =>
                     (loops[i].final \/ ~is_running[loops[i].ap])]_vars

\* C13 witness: 30 words are cached and 20 s have passed since the last
\* dispatch, so that any transcript would be followed by a dispatch, and the
\* loop is back at its generator with no event sent and no task created
C13_Witness ==
    /\ is_streaming /\ sent = <<>> /\ tasks = <<>>
    /\ now - last_feedback_time >= 20
    /\ Len(JoinTexts(LastN(cache.transcripts, 3))) >= 30
    /\ \E i \in 1..Len(loops) : loops[i].pc = "fetch" /\ loops[i].buf

\* ---- stopping (FairLifeSpec)

\* transcribe calls in flight
InFlight == Cardinality({i \in 1..Len(loops) : loops[i].pc = "transcribing"})

\* C14: a stop clears is_streaming and leaves every loop, a transcribe call in
\* flight included, where it is; while is_streaming is false no loop begins a
\* transcribe call; and once no start can follow, a session that is not
\* streaming gets rid of all its loops and stays not streaming.
C14_StopIsCooperative ==
    /\ [][/\ ReceiveStop => (~is_streaming' /\ UNCHANGED loops)
          /\ ~is_streaming =>
                 /\ sent' # <<"status:streaming">>
                 /\ InFlight' <= InFlight]_vars
    /\ (~is_streaming /\ Len(is_running) = MaxStarts)
           ~> (~is_streaming /\ loops = <<>>)

\* C14 witness: the session was stopped with a transcribe call in flight, and
\* the call has now returned its transcript to a loop that is still there
C14_Witness ==
    /\ ~is_streaming /\ Len(is_running) = MaxStarts
    /\ sent = <<"transcript">>
    /\ Len(loops) = 1

\* C36 as stated, in a connection that accepts one start: while the session is
\* not streaming (before the start, after the stop, after the loop has left) no
\* transcript is added to the cache, no transcript event is sent and no
\* feedback task is dispatched, also when a transcribe call that was in flight
\* at the stop returns a text.
C36_NothingAfterStop ==
    [][~is_streaming =>
          /\ ~TranscriptAdded
          /\ sent' # <<"transcript">>
          /\ ~Dispatched]_vars

\* ---- restarts and messages (RestartSpec)

\* C15 as stated: no decode process stays running for a finished session.  A
\* processor runs from stream_audio's entry until a stop() on it; the processor
\* of an earlier session that still runs while a later session streams is
\* stopped by nothing unless the event loop is about to close its generator.
C15_NoProcessOutlivesSession ==
    \A p \in 1..Len(is_running) :
        (is_streaming /\ is_running[p] /\ p # audio_processor) => p \in orphans

\* C16 as stated: every malformed message is answered with exactly one error
\* event and leaves the session state as it is.
C16_MalformedGivesError ==
    [][\A kind \in Malformed :
          ReceiveMalformed(kind) =>
              /\ sent' = <<"error">>
              /\ UNCHANGED <<is_streaming, cache, start_time, last_feedback_time,
                             audio_processor, is_running, loops, tasks>>]_vars

\* ---- the context cache (CacheSpec)

\* C17: after any sequence of add_transcript, should_generate_feedback,
\* get_feedback_context, add_feedback and reset calls the context window holds
\* at most as many events as the configured capacity.
C17_WindowWithinCapacity == Len(cache.transcripts) <= cache.maxlen

\* more texts were added than the window can hold, and the window is full
C17_Witness ==
    /\ Len(history) > cache.maxlen
    /\ Len(cache.transcripts) = cache.maxlen
    /\ cache.previous_feedbacks # <<>>

\* the last n elements of q, for 0 <= n <= Len(q)
Newest(q, n) == SubSeq(q, Len(q) - n + 1, Len(q))

\* C18: the context window is first-in first-out: after n add_transcript calls
\* since the last reset it holds exactly the last min(n, capacity) added texts
\* in the order of their insertion, and an add on a full window removes the
\* oldest entry and no other.  (The window is empty at first; the equation
\* holds after every step.)
C18_WindowIsFifo ==
    /\ cache.transcripts = <<>> /\ history = <<>>
    /\ [][cache'.transcripts = Newest(history', Min(Len(history'), cache'.maxlen))]_vars
    /\ [][Len(history') = Len(history) + 1
              /\ Len(cache.transcripts) = cache.maxlen
          => cache'.transcripts
                = Append(Tail(cache.transcripts), history'[Len(history')])]_vars

\* three different texts went into a window of two, which holds the last two
\* in their order
C18_Witness ==
    /\ cache.maxlen = 2
    /\ Len(history) = 3
    /\ Cardinality(SeqToSet(history)) = 3
    /\ cache.transcripts = <<history[2], history[3]>>

\* self.topics.get(kw, 0)
Tally(topics, kw) ==
    IF \E i \in 1..Len(topics) : topics[i].kw = kw
    THEN (CHOOSE t \in SeqToSet(topics) : t.kw = kw).n
    ELSE 0

\* how many times kw occurs in a list of keywords
Occurrences(kw, keywords) ==
    Cardinality({i \in 1..Len(keywords) : keywords[i] = kw})

Tallied(topics) == {topics[i].kw : i \in 1..Len(topics)}

\* the tally `after` is the tally `before` with every keyword raised by the
\* number of its occurrences in keywords
RaisedBy(before, after, keywords) ==
    \A kw \in Tallied(before) \cup Tallied(after) :
        Tally(after, kw) = Tally(before, kw) + Occurrences(kw, keywords)

\* C19: add_transcript(text) raises the tally of each keyword by exactly the
\* number of times the keyword occurs among the keywords extracted from text
\* and leaves every other tally entry as it was; no key is listed twice.
\* (ContextSpec: its texts repeat a keyword, and are added again and again.)
C19_TallyIsAdditive ==
    [][Len(history') = Len(history) + 1 =>
          /\ RaisedBy(cache.topics, cache'.topics,
                      ExtractKeywords(history'[Len(history')]))
          /\ Cardinality(Tallied(cache'.topics)) = Len(cache'.topics)]_vars

\* a text in which "json" occurs twice, then the one-word text twice: "json"
\* stands at two, "ajax" at three, "http" at one
C19_Witness ==
    /\ history = <<<<"json", "http", "json", "ajax">>, Filler, Filler>>
    /\ Tally(cache.topics, "json") = 2
    /\ Tally(cache.topics, "ajax") = 3
    /\ Tally(cache.topics, "http") = 1

\* C20: between two resets every tallied keyword has a count of at least one
\* and no operation (add_transcript, should_generate_feedback,
\* get_feedback_context, add_feedback, the eviction of a window entry) lowers
\* a count; a tally entry disappears only in reset().  (The tally is empty at
\* first; the counts are at least one after every step.)
C20_TallyNeverDecreases ==
    /\ cache.topics = <<>>
    /\ [][\A i \in 1..Len(cache'.topics) : cache'.topics[i].n >= 1]_vars
    /\ [][\/ \A kw \in Tallied(cache.topics) :
                /\ kw \in Tallied(cache'.topics)
                /\ Tally(cache'.topics, kw) >= Tally(cache.topics, kw)
          \/ CacheReset]_vars

\* the only window entry is not the text "python" came from, which was
\* evicted; its tally stands, a feedback was recorded and the last call was
\* should_generate_feedback
C20_Witness ==
    /\ cache.maxlen = 1
    /\ history = <<TextB, TextLong>>
    /\ cache.transcripts = <<TextLong>>
    /\ Tally(cache.topics, "python") = 1
    /\ cache.previous_feedbacks # <<>>
    /\ ret # <<>>
    /\ "should" \in DOMAIN ret

\* the combined word count of the three most recent window entries
RecentWordCount(c) == Len(JoinTexts(LastN(c.transcripts, 3)))

\* the keyword set of the three most recent window entries
RecentKeywords(c) == SeqToSet(ExtractKeywords(JoinTexts(LastN(c.transcripts, 3))))

\* C21 as stated: for every cache state, the empty window included, and every
\* min_words, should_generate_feedback(min_words) returns should = false with
\* reason "insufficient_words" when the combined word count of the three most
\* recent entries is below min_words.
C21_Original ==
    [][\A min_words \in MinWords :
          RecentWordCount(cache) < min_words /\ CacheShould(min_words)
          => ret' = [should |-> FALSE, reason |-> "insufficient_words"]]_vars

\* C21 as the code has it: below min_words the answer is should = false, with
\* reason "no_content" on an empty window and "insufficient_words" on any
\* other, whatever the topic and keyword signals are.
C21_Amended ==
    [][\A min_words \in MinWords :
          (/\ UNCHANGED cache
           /\ RecentWordCount(cache) < min_words
           /\ CacheShould(min_words))
          => ret' = [should |-> FALSE,
                     reason |-> IF cache.transcripts = <<>> THEN "no_content"
                                ELSE "insufficient_words"]]_vars

\* twenty words in the window, a topic change against the last snapshot, and
\* the answer was "insufficient_words"
C21_Witness ==
    /\ RecentWordCount(cache) = 20
    /\ DetectTopicChange(cache, RecentKeywords(cache))
    /\ ret = [should |-> FALSE, reason |-> "insufficient_words"]

\* ---- topic change (TopicSpec)

\* more than six tenths of the current keywords are absent from the previous
\* snapshot, and neither set is empty
IsTopicChange(previous, current) ==
    /\ previous # {}
    /\ current # {}
    /\ 5 * Cardinality(current \ previous) > 3 * Cardinality(current)

C27_SnapshotReplaced ==
    [][Len(history') = Len(history) + 1 =>
          LET keywords == SeqToSet(ExtractKeywords(history'[Len(history')]))
          IN  /\ cache'.last_topic_keywords = keywords
              /\ ret'.keywords = ExtractKeywords(history'[Len(history')])
              /\ ret'.topic_changed
                     = IsTopicChange(cache.last_topic_keywords, keywords)]_vars

\* three keywords after two others: a topic change was reported, and the
\* snapshot holds the three only
C27_Witness ==
    /\ history = <<Selection({1, 2}, 1), Selection({3, 4, 5}, 1)>>
    /\ cache.last_topic_keywords = {"http", "dom", "axios"}
    /\ "topic_changed" \in DOMAIN ret
    /\ ret.topic_changed

\* ---- the decision of should_generate_feedback (CacheSpec)

\* C23: when the three most recent entries hold at least min_words words
\* (min_words >= 1, so the window is not empty), should_generate_feedback
\* answers should = true and the first reason that applies of: "topic_change"
\* when the keywords of those entries are a topic change against the last
\* snapshot, "new_content" when at least two of them are absent from the
\* snapshot, "regular".
C23_ReasonPriority ==
    [][\A min_words \in MinWords :
          (/\ UNCHANGED cache
           /\ RecentWordCount(cache) >= min_words
           /\ CacheShould(min_words))
          => /\ ret'.should
             /\ ret'.reason =
                   IF IsTopicChange(cache.last_topic_keywords, RecentKeywords(cache))
                   THEN "topic_change"
                   ELSE IF Cardinality(RecentKeywords(cache)
                                           \ cache.last_topic_keywords) >= 2
                        THEN "new_content"
                   ELSE "regular"]_vars

\* the answer was "topic_change" although two or more keywords were new too
C23_Witness ==
    /\ "should" \in DOMAIN ret
    /\ ret.should
    /\ ret.reason = "topic_change"
    /\ ret.has_new_content
    /\ Cardinality(RecentKeywords(cache) \ cache.last_topic_keywords) >= 2

\* ---- the feedback history (FeedbackSpec)

\* C25: after any sequence of add_feedback calls the feedback history holds
\* the last min(n, 10) feedbacks added since the last reset, in the order of
\* their insertion, so at most 10; the last_feedback of get_feedback_context
\* is the feedback added last, or None when the history is empty.
C25_FeedbackHistoryBounded ==
    /\ cache.previous_feedbacks = <<>> /\ history = <<>>
    /\ [][/\ cache'.previous_feedbacks = Newest(history', Min(Len(history'), 10))
          /\ Len(cache'.previous_feedbacks) <= 10
          /\ CacheContext =>
                /\ ret'.previous_feedback_count = Min(Len(history), 10)
                /\ ret'.last_feedback = IF history = <<>> THEN None
                                        ELSE history[Len(history)]]_vars

\* twelve feedbacks were added, the first unlike the third; the history holds
\* the last ten and get_feedback_context reported the twelfth
C25_Witness ==
    /\ Len(history) = 12
    /\ history[1] # history[3]
    /\ history[11] # history[12]
    /\ Len(cache.previous_feedbacks) = 10
    /\ cache.previous_feedbacks[1] = history[3]
    /\ "last_feedback" \in DOMAIN ret
    /\ ret.last_feedback = history[12]

\* ---- the context bundle (ContextSpec)

\* the counts of a list of tally entries
Counts(entries) == [i \in 1..Len(entries) |-> entries[i].n]

\* C26: get_feedback_context and should_generate_feedback change nothing of
\* the cache (window, tally, snapshot, feedback history, word count);
\* get_feedback_context returns as recent_text the texts of the last
\* min(15, n) window entries joined in order, and as top_topics min(5, size of
\* the tally) different tally entries in non-increasing order of count, none
\* of them with a smaller count than an entry left out.
C26_ContextIsReadOnlySnapshot ==
    [][/\ (CacheContext \/ CacheShould(min_words_for_feedback)) => UNCHANGED cache
       /\ CacheContext =>
             LET top == ret'.top_topics
                 n == Len(cache.transcripts)
             IN  /\ ret'.recent_text
                       = JoinTexts(Newest(cache.transcripts, Min(15, n)))
                 /\ Len(top) = Min(5, Len(cache.topics))
                 /\ Cardinality(SeqToSet(top)) = Len(top)
                 /\ SeqToSet(top) \subseteq SeqToSet(cache.topics)
                 /\ \A i \in 1..(Len(top) - 1) : top[i].n >= top[i + 1].n
                 /\ \A t \in SeqToSet(cache.topics) \ SeqToSet(top) :
                        \A i \in 1..Len(top) : t.n <= top[i].n]_vars

\* sixteen texts are in the window, the first a longer one that the recent
\* text of the bundle leaves out; the tally has more than five entries
C26_Witness ==
    /\ Len(cache.transcripts) = 16
    /\ cache.transcripts[1] = TextB
    /\ Len(cache.topics) > 5
    /\ "recent_text" \in DOMAIN ret
    /\ ret.recent_text = JoinTexts(Tail(cache.transcripts))
    /\ Counts(ret.top_topics) = <<15, 1, 1, 1, 1>>

\* ---- the session over time, with restarts (TimedSpec)

\* C24: reset() leaves the window, the tally, the snapshot and the feedback
\* history empty and the word count 0, and sets session_start to the time of
\* the call; an accepted start does this before the loop it creates has taken
\* a step, so before any chunk of the new session is analysed.
C24_StartResetsCache ==
    [][~is_streaming /\ is_streaming' =>
          /\ cache'.transcripts = <<>>
          /\ cache'.topics = <<>>
          /\ cache'.last_topic_keywords = {}
          /\ cache'.previous_feedbacks = <<>>
          /\ cache'.total_words = 0
          /\ cache'.session_start = now
          /\ start_time' = now
          /\ Len(loops') = Len(loops) + 1
          /\ loops'[Len(loops')].pc = "created"]_vars

\* the second start, at 10 s, has just reset the cache, while a feedback task
\* of the first session, dispatched on its transcripts, is still under way
C24_Witness ==
    /\ Len(is_running) = 2
    /\ sent = <<"status:starting">>
    /\ now = 10
    /\ cache = NewCache(10)
    /\ tasks # <<>>

\* C28: last_feedback_time never decreases over the life of a connection
\* whose clock does not run backwards: neither a dispatch nor a start, a
\* restart after a stop included, sets it to a smaller value.
C28_LastFeedbackTimeMonotonic ==
    [][now' >= now => last_feedback_time' >= last_feedback_time]_vars

\* the first session dispatched at 10 s, the second was started at 10 s and
\* its loop is reading: last_feedback_time was set twice, to 10 both times
C28_Witness ==
    /\ Len(is_running) = 2
    /\ start_time = 10
    /\ last_feedback_time = 10
    /\ tasks # <<>>
    /\ loops # <<>>
    /\ loops[Len(loops)].pc = "fetch"
    /\ loops[Len(loops)].ap = 2

\* ---- the status events of a session (RestartSpec)

\* loop i emits status 'streaming' in the step
EmitsStreaming(i) ==
    /\ i \in 1..Len(loops)
    /\ loops[i].pc = "chunk"
    /\ Len(loops') = Len(loops)
    /\ loops'[i] # loops[i]
    /\ sent' = <<"status:streaming">>

\* C30 as stated, for the first session of a connection: once its 'stopped'
\* status has gone out it emits no 'streaming' status.  While the loop of the
\* first session is alive, a second session can only have been started after
\* a stop message, which sent the 'stopped' of the first.
C30_NoStreamingAfterStopped ==
    [][\A i \in 1..Len(loops) :
          (loops[i].ap = 1 /\ audio_processor > 1) => ~EmitsStreaming(i)]_vars

\* ---- the loop of an earlier session (RestartSpec)

\* loop i takes the step: it moves on, or it leaves
Acts(i) ==
    /\ i \in 1..Len(loops)
    /\ IF Len(loops') = Len(loops)
       THEN loops'[i] # loops[i]
       ELSE loops' = RemoveAt(loops, i)

\* loop i reads a processor older than the current one: it was started by an
\* earlier session of the connection
LeftOver(i) == loops[i].ap # 0 /\ loops[i].ap < audio_processor

\* C35 as stated: while a later session is streaming, no step of a loop left
\* over from an earlier session clears is_streaming, sends status 'stopped' or
\* adds a transcript to the cache the later start has reset.
C35_LeftOverLoopIsHarmless ==
    [][\A i \in 1..Len(loops) :
          (is_streaming /\ LeftOver(i) /\ Acts(i)) =>
              /\ is_streaming'
              /\ sent' # <<"status:stopped">>
              /\ ~TranscriptAdded]_vars

====
